---------------------------- MODULE Spec2Model ----------------------------
(***************************************************************************)
(* Model of src/src/storage.rs: RingBufferStorage<T>, ReaderId and         *)
(* StorageIterator.  Slot indices are 0-based as in the source; the        *)
(* sequence `data` is 1-based, so slot i is data[i + 1].                   *)
(***************************************************************************)
EXTENDS Integers, Sequences, FiniteSets, TLC

\* ------------------------------------------------------------------ bounds
MaxCapacity == 2        \* sizes passed to new(): 1..MaxCapacity
MaxValue    == 1        \* items written are drawn from 0..MaxValue
MaxReaders  == 2        \* readers followed side by side in SpecReaders
MaxWrites   == 5        \* write_single calls followed after the initial state
MaxWritesReaders == 3   \* the same, in SpecReaders
NearReset   == 1        \* a long-running buffer starts this far below reset_written

\* ------------------------------------------------------- program constants
ResetFactor == 1000     \* reset_written: size * 1000

Values == 0 .. MaxValue

TypeT     == "T"        \* TypeId::of::<T>()
TypeOther == "Test2"    \* any other TypeId

VARIABLES
    storage,    \* the RingBufferStorage<T>
    readers,    \* the ReaderId values handed out by new_reader_id, by id
    since,      \* ghost: write_single calls since a reader's last read / creation
    log,        \* ghost: the last max_size writes (item and slot), oldest first
    born,       \* ghost: write_single calls since a reader's creation, up to max_size
    prev,       \* ghost: a reader's latest call ("new", "Ok", "LostData") while no
                \*        write_single has followed it, "written" after that
    ahead,      \* ghost: per pair of readers created at the same moment, what
                \*        each has received beyond what both have received
    writes,     \* ghost: write_single calls made after the initial state
    total,      \* ghost: write_single calls made since new()
    owed,       \* ghost: write_single calls since a reader's creation, less the
                \*        items it has received and the losses reported to it
    last        \* observation of the last call: its arguments and result

vars ==
    <<storage, readers, since, born, prev, ahead, log, writes, total, owed,
      last>>

\* ---------------------------------------------------------------- helpers
Min(a, b) == IF a < b THEN a ELSE b

\* the last n elements of s (all of s when it is shorter)
LastN(s, n) ==
    IF Len(s) <= n THEN s ELSE SubSeq(s, Len(s) - n + 1, Len(s))

\* sequences over S of length exactly n
SeqsOfLen(S, n) == [1 .. n -> S]

\* ------------------------------------------------------------ ReaderId
ReaderId_new(t, id, reader_index, w) ==
    [t |-> t, id |-> id, read_index |-> reader_index, written |-> w]

NoReader == [t |-> "none", id |-> 0, read_index |-> 0, written |-> 0]

\* --------------------------------------------------- RingBufferStorage
new(size) ==
    [data           |-> <<>>,
     write_index    |-> 0,
     max_size       |-> size,
     written        |-> 0,
     next_reader_id |-> 1,
     reset_written  |-> size * ResetFactor]

\* the slot the item goes to: pushed when the vector is still growing
\* variant: once the vector is full the first slot is overwritten
StoreItem_FirstSlot(data, write_index, d) ==
    IF write_index = Len(data)
    THEN Append(data, d)
    ELSE [data EXCEPT ![1] = d]

StoreItem(data, write_index, d) ==
    IF write_index = Len(data)
    THEN Append(data, d)
    ELSE [data EXCEPT ![write_index + 1] = d]

\* variant: the wrap comes one position late
AdvanceWriteIndex_Late(write_index, max_size) ==
    IF write_index + 1 > max_size THEN 0 ELSE write_index + 1

AdvanceWriteIndex(write_index, max_size) ==
    IF write_index + 1 >= max_size THEN 0 ELSE write_index + 1

AdvanceWritten(w, reset) ==
    IF w + 1 > reset THEN 0 ELSE w + 1

write_single(s, d) ==
    [s EXCEPT !.data        = StoreItem(s.data, s.write_index, d),
              !.write_index = AdvanceWriteIndex(s.write_index, s.max_size),
              !.written     = AdvanceWritten(s.written, s.reset_written)]

\* the drain loop of write(): write_single for each item in order
RECURSIVE WriteAll(_, _)
WriteAll(s, items) ==
    IF items = <<>> THEN s
    ELSE WriteAll(write_single(s, Head(items)), Tail(items))

\* variant: the size check is off by one
WriteRejected_OffByOne(s, items) == Len(items) > s.max_size + 1

WriteRejected(s, items) == Len(items) > s.max_size

\* variant: an empty batch is counted as one write
write_EmptyCounts(s, items) ==
    IF Len(items) = 0
    THEN [res |-> "Ok",
          storage |-> [s EXCEPT !.written = AdvanceWritten(s.written,
                                                           s.reset_written)]]
    ELSE IF WriteRejected(s, items)
         THEN [res |-> "TooLargeWrite", storage |-> s]
         ELSE [res |-> "Ok", storage |-> WriteAll(s, items)]

write(s, items) ==
    IF Len(items) = 0 THEN [res |-> "Ok", storage |-> s]
    ELSE IF WriteRejected(s, items)
         THEN [res |-> "TooLargeWrite", storage |-> s]
         ELSE [res |-> "Ok", storage |-> WriteAll(s, items)]

\* variant: the reader starts at the beginning of the storage
new_reader_id_FromStart(s) ==
    [reader  |-> ReaderId_new(TypeT, s.next_reader_id, 0, 0),
     storage |-> [s EXCEPT !.next_reader_id = s.next_reader_id + 1]]

new_reader_id(s) ==
    [reader  |-> ReaderId_new(TypeT, s.next_reader_id, s.write_index, s.written),
     storage |-> [s EXCEPT !.next_reader_id = s.next_reader_id + 1]]

\* --------------------------------------------------- StorageIterator
\* One call of next(): the item's slot, or "None", or "panic" when the
\* index is out of bounds of storage.data.
\* variant: the position is not taken back to slot 0
IterWrap_Straight(current, end, len) == current

IterWrap(current, end, len) ==
    IF current = len /\ end # len THEN 0 ELSE current

IterNext(s, it) ==
    IF it.started /\ it.current = it.end
    THEN [kind |-> "None", slot |-> 0, it |-> it]
    ELSE IF it.current >= Len(s.data)
         THEN [kind |-> "panic", slot |-> it.current,
               it |-> [it EXCEPT !.started = TRUE]]
         ELSE [kind |-> "Some", slot |-> it.current,
               it |-> [it EXCEPT !.started = TRUE,
                                 !.current = IterWrap(it.current + 1, it.end,
                                                      Len(s.data))]]

\* Consuming the iterator (.cloned().collect()): the slots visited, in order.
\* fuel bounds the number of next() calls followed.
RECURSIVE Collect(_, _, _, _)
Collect(s, it, fuel, acc) ==
    LET n == IterNext(s, it) IN
    IF n.kind = "None" THEN [slots |-> acc, end |-> "None"]
    ELSE IF n.kind = "panic" THEN [slots |-> acc, end |-> "panic"]
    ELSE IF fuel = 0 THEN [slots |-> acc, end |-> "more"]
    ELSE Collect(s, n.it, fuel - 1, Append(acc, n.slot))

\* ------------------------------------------------------------- read
NumWritten(s, reader_id) ==
    IF s.written < reader_id.written
    THEN s.written + (s.reset_written - reader_id.written)
    ELSE s.written - reader_id.written

IsLost(num_written, max_size) == num_written > max_size

\* variant: only the position is resynchronised
Resync_KeepWritten(s, reader_id) ==
    [reader_id EXCEPT !.read_index = s.write_index]

Resync(s, reader_id) ==
    [reader_id EXCEPT !.read_index = s.write_index,
                      !.written    = s.written]

\* variant: the salvage starts at slot 0
LostIter_FromZero(s) ==
    [current |-> 0, end |-> 0, started |-> FALSE]

LostIter(s) ==
    [current |-> s.write_index, end |-> s.write_index, started |-> FALSE]

\* variant: no special case for an empty range
OkIter_NeverStarted(s, read_index, num_written) ==
    [current |-> read_index, end |-> s.write_index, started |-> FALSE]

OkIter(s, read_index, num_written) ==
    [current |-> read_index, end |-> s.write_index,
     started |-> (num_written = 0)]

\* variant: the reader is resynchronised before the type check
read_ResyncFirst(s, reader_id) ==
    IF reader_id.t # TypeT
    THEN [res |-> "InvalidReader", reader |-> Resync(s, reader_id),
          iter |-> LostIter(s), lost |-> 0]
    ELSE LET num_written == NumWritten(s, reader_id) IN
         IF IsLost(num_written, s.max_size)
         THEN [res |-> "LostData", reader |-> Resync(s, reader_id),
               iter |-> LostIter(s), lost |-> num_written - s.max_size]
         ELSE [res |-> "Ok", reader |-> Resync(s, reader_id),
               iter |-> OkIter(s, reader_id.read_index, num_written),
               lost |-> 0]

read(s, reader_id) ==
    IF reader_id.t # TypeT
    THEN [res |-> "InvalidReader", reader |-> reader_id,
          iter |-> LostIter(s), lost |-> 0]
    ELSE LET num_written == NumWritten(s, reader_id) IN
         IF IsLost(num_written, s.max_size)
         THEN [res |-> "LostData", reader |-> Resync(s, reader_id),
               iter |-> LostIter(s), lost |-> num_written - s.max_size]
         ELSE [res |-> "Ok", reader |-> Resync(s, reader_id),
               iter |-> OkIter(s, reader_id.read_index, num_written),
               lost |-> 0]

\* ----------------------------------------------------------- ghost state
\* The producer's side with its bookkeeping: the storage and the last
\* max_size writes, each with the item and the slot it went to.
Produce(w, d) ==
    [storage |-> write_single(w.storage, d),
     log     |-> LastN(Append(w.log, [d |-> d, slot |-> w.storage.write_index]),
                       w.storage.max_size)]

RECURSIVE ProduceAll(_, _)
ProduceAll(w, items) ==
    IF items = <<>> THEN w
    ELSE ProduceAll(Produce(w, Head(items)), Tail(items))

\* the items of the history that precedes the initial state
PreItem(k) == k % (MaxValue + 1)

\* write_single(PreItem(first)), ..., write_single(PreItem(first + k - 1))
RECURSIVE ProduceRun(_, _, _)
ProduceRun(w, first, k) ==
    IF k = 0 THEN w
    ELSE IF k = 1 THEN Produce(w, PreItem(first))
    ELSE LET h    == k \div 2
             half == ProduceRun(w, first, h)
         IN  IF half.storage.written >= 0      \* the first half is evaluated
             THEN ProduceRun(half, first + h, k - h)   \* before the rest
             ELSE half

Fresh(size) ==
    [storage |-> new(size), log |-> <<>>]

\* ----------------------------------------------------------- the machine
Slots == 1 .. MaxReaders

Minted == {i \in Slots : readers[i] # NoReader}

World == [storage |-> storage, log |-> log]

NoLast ==
    [op |-> "new", res |-> "Ok", rid |-> 0, n |-> 0, born |-> 0,
     prev |-> "none", items |-> <<>>, slots |-> <<>>, end |-> "None",
     lost |-> 0, before |-> NoReader, after |-> NoReader]

Pairs == {p \in Slots \X Slots : p[1] < p[2]}

NoPair == [sync |-> FALSE, a |-> <<>>, b |-> <<>>]

\* drop the common prefix of what the two readers of a pair have received
RECURSIVE Strip(_, _)
Strip(a, b) ==
    IF a # <<>> /\ b # <<>> /\ Head(a) = Head(b)
    THEN Strip(Tail(a), Tail(b))
    ELSE [sync |-> TRUE, a |-> a, b |-> b]

\* reader i has received items from a read made n writes after its last one
Received(i, n, items) ==
    [p \in Pairs |->
        IF ~ahead[p].sync \/ i \notin {p[1], p[2]} THEN ahead[p]
        ELSE IF n > storage.max_size THEN NoPair
        ELSE IF i = p[1] THEN Strip(ahead[p].a \o items, ahead[p].b)
                         ELSE Strip(ahead[p].a, ahead[p].b \o items)]

\* reader j is created: it pairs with the readers created since the last write
Paired(j) ==
    [p \in Pairs |->
        IF p[2] # j THEN ahead[p]
        ELSE [NoPair EXCEPT !.sync = (p[1] \in Minted /\ born[p[1]] = 0)]]

CountAfter(f, k) == [i \in Slots |-> IF i \in Minted THEN f[i] + k ELSE 0]

\* no slot is older than max_size - 1 writes, so born saturates at max_size
BornAfter(k) == [i \in Slots |-> Min(CountAfter(born, k)[i], storage.max_size)]

PrevAfter(k) == [i \in Slots |-> IF i \in Minted /\ k > 0 THEN "written"
                                                         ELSE prev[i]]

\* The buffer is either new, or has been written to by write_single until
\* written is NearReset below reset_written (size * ResetFactor - NearReset
\* calls of write_single on new(size)).
Init ==
    \E size \in 1 .. MaxCapacity :
      \E pre \in {0, size * ResetFactor - NearReset} :
        LET w == ProduceRun(Fresh(size), 1, pre) IN
        /\ storage = w.storage
        /\ log     = w.log
        /\ readers = [i \in Slots |-> NoReader]
        /\ since   = [i \in Slots |-> 0]
        /\ born    = [i \in Slots |-> 0]
        /\ prev    = [i \in Slots |-> "none"]
        /\ ahead   = [p \in Pairs |-> NoPair]
        /\ writes  = 0
        /\ total   = pre
        /\ owed    = [i \in Slots |-> 0]
        /\ last    = NoLast

WriteSingle(d) ==
    /\ writes + 1 <= MaxWrites
    /\ LET w == Produce(World, d) IN
        /\ storage' = w.storage
        /\ log'     = w.log
    /\ since'   = CountAfter(since, 1)
    /\ born'    = BornAfter(1)
    /\ prev'    = PrevAfter(1)
    /\ writes'  = writes + 1
    /\ total'   = total + 1
    /\ owed'    = CountAfter(owed, 1)
    /\ last'    = [NoLast EXCEPT !.op = "write_single", !.items = <<d>>]
    /\ UNCHANGED <<readers, ahead>>

Write(items) ==
    LET r    == write(storage, items)
        done == IF r.res = "Ok" THEN items ELSE <<>>
        w    == ProduceAll(World, done)
    IN  /\ writes + Len(done) <= MaxWrites
        /\ storage' = r.storage
        /\ log'     = w.log
        /\ since'   = CountAfter(since, Len(done))
        /\ born'    = BornAfter(Len(done))
        /\ prev'    = PrevAfter(Len(done))
        /\ writes'  = writes + Len(done)
        /\ total'   = total + Len(done)
        /\ owed'    = CountAfter(owed, Len(done))
        /\ last'    = [NoLast EXCEPT !.op = "write", !.res = r.res,
                                     !.items = items]
        /\ UNCHANGED <<readers, ahead>>

NewReaderId(limit) ==
    /\ storage.next_reader_id <= limit
    /\ LET r == new_reader_id(storage) IN
        /\ storage' = r.storage
        /\ readers' = [readers EXCEPT ![r.reader.id] = r.reader]
        /\ since'   = [since EXCEPT ![r.reader.id] = 0]
        /\ born'    = [born EXCEPT ![r.reader.id] = 0]
        /\ prev'    = [prev EXCEPT ![r.reader.id] = "new"]
        /\ owed'    = [owed EXCEPT ![r.reader.id] = 0]
        /\ ahead'   = Paired(r.reader.id)
        /\ last'    = [NoLast EXCEPT !.op = "new_reader_id",
                                     !.rid = r.reader.id,
                                     !.after = r.reader]
    /\ UNCHANGED <<log, writes, total>>

\* consuming the iterator that read() returned
Consume(s, r) ==
    LET c == IF r.res = "InvalidReader"
             THEN [slots |-> <<>>, end |-> "None"]
             ELSE Collect(s, r.iter, s.max_size + 1, <<>>)
    IN  [res   |-> r.res,
         items |-> [k \in 1 .. Len(c.slots) |-> s.data[c.slots[k] + 1]],
         slots |-> c.slots, end |-> c.end, lost |-> r.lost,
         after |-> r.reader]

\* read() followed by consuming the returned iterator
ReadObs(s, reader_id) == Consume(s, read(s, reader_id))

Observe(o, rid, reader_id, n, b, p) ==
    [op |-> "read", res |-> o.res, rid |-> rid, n |-> n, born |-> b,
     prev |-> p, items |-> o.items, slots |-> o.slots, end |-> o.end,
     lost |-> o.lost, before |-> reader_id, after |-> o.after]

\* variant: one read position shared by all readers
Read_SharedCursor(i) ==
    /\ i \in Minted
    /\ LET o == ReadObs(storage, readers[i]) IN
        /\ last'    = Observe(o, i, readers[i], since[i], born[i], prev[i])
        /\ readers' = [j \in Slots |-> IF j \in Minted
                                        THEN Resync(storage, readers[j])
                                        ELSE readers[j]]
        /\ prev'    = [prev EXCEPT ![i] = o.res]
        /\ ahead'   = Received(i, since[i], o.items)
        /\ owed'    = [owed EXCEPT ![i] = @ - Len(o.items) - o.lost]
    /\ since'   = [since EXCEPT ![i] = 0]
    /\ UNCHANGED <<storage, born, log, writes, total>>

\* variant: a read that takes the next reader id
Read_TakesId(i) ==
    /\ i \in Minted
    /\ LET o == ReadObs(storage, readers[i]) IN
        /\ last'    = Observe(o, i, readers[i], since[i], born[i], prev[i])
        /\ readers' = [readers EXCEPT ![i] = o.after]
        /\ prev'    = [prev EXCEPT ![i] = o.res]
        /\ ahead'   = Received(i, since[i], o.items)
        /\ owed'    = [owed EXCEPT ![i] = @ - Len(o.items) - o.lost]
    /\ since'   = [since EXCEPT ![i] = 0]
    /\ storage' = [storage EXCEPT !.next_reader_id = MaxReaders + 1]
    /\ UNCHANGED <<born, log, writes, total>>

Read(i) ==
    /\ i \in Minted
    /\ LET o == ReadObs(storage, readers[i]) IN
        /\ last'    = Observe(o, i, readers[i], since[i], born[i], prev[i])
        /\ readers' = [readers EXCEPT ![i] = o.after]
        /\ prev'    = [prev EXCEPT ![i] = o.res]
        /\ ahead'   = Received(i, since[i], o.items)
        /\ owed'    = [owed EXCEPT ![i] = @ - Len(o.items) - o.lost]
    /\ since'   = [since EXCEPT ![i] = 0]
    /\ UNCHANGED <<storage, born, log, writes, total>>

\* a ReaderId built with ReaderId::new for another element type
ForeignReaders ==
    {ReaderId_new(TypeOther, 4, ri, w) :
        ri \in {0, storage.max_size},
        w  \in {storage.written, storage.reset_written}}

ReadForeign(reader_id) ==
    /\ last' = Observe(ReadObs(storage, reader_id), 0, reader_id, 0, 0, "none")
    /\ UNCHANGED <<storage, readers, since, born, prev, ahead, log, writes,
                   total, owed>>

\* reset_written - reader_id.written (line 135) is below zero: the usize
\* subtraction panics in a build with overflow checks and wraps modulo
\* 2^64 in a build without them.
Underflows(s, reader_id) ==
    s.written < reader_id.written /\ s.reset_written < reader_id.written

\* read() in a build with overflow checks when the subtraction underflows
read_Panicked(reader_id) ==
    [res |-> "panic", items |-> <<>>, slots |-> <<>>, end |-> "panic",
     lost |-> 0, after |-> reader_id]

\* read() in a build without overflow checks when the subtraction wraps:
\* num_written is s.written + s.reset_written - reader_id.written modulo
\* 2^64.  When that sum is not negative the addition wraps back and
\* num_written is the sum; when it is negative num_written is 2^64 plus the
\* sum, which exceeds max_size, and the count of LostData is kept here
\* without the 2^64.
read_Wrapped(s, reader_id) ==
    LET v == s.written + s.reset_written - reader_id.written IN
    IF v >= 0 THEN read(s, reader_id)
    ELSE [res |-> "LostData", reader |-> Resync(s, reader_id),
          iter |-> LostIter(s), lost |-> v - s.max_size]

\* A ReaderId of the same element type that this storage did not hand out:
\* one made by new_reader_id of another RingBufferStorage<T>, whose size,
\* write_index and written are its own (read_index up to the other
\* storage's max_size - 1, written up to its reset_written).
OtherReaders ==
    {ReaderId_new(TypeT, 1, ri, w) :
        ri \in {0, storage.max_size},
        w  \in {storage.written, storage.reset_written + 1}}

\* read with such a ReaderId; checks: the build has overflow checks
ReadOther(reader_id, checks) ==
    /\ last' = Observe(IF ~Underflows(storage, reader_id)
                         THEN ReadObs(storage, reader_id)
                       ELSE IF checks THEN read_Panicked(reader_id)
                       ELSE Consume(storage, read_Wrapped(storage, reader_id)),
                       0, reader_id, 0, 0, "none")
    /\ UNCHANGED <<storage, readers, since, born, prev, ahead, log, writes,
                   total, owed>>

\* The batches passed to write: every batch of at most max_size items, and
\* the batches of max_size + 1 equal items.
Batches ==
    UNION {SeqsOfLen(Values, k) : k \in 0 .. storage.max_size}
      \cup {[k \in 1 .. storage.max_size + 1 |-> d] : d \in Values}

\* Every operation, with one reader: the reader is created at any moment
\* and read at any moment.
Next ==
    \/ \E d \in Values : WriteSingle(d)
    \/ \E items \in Batches : Write(items)
    \/ NewReaderId(1)
    \/ \E i \in Slots : Read(i)
    \/ \E reader_id \in ForeignReaders : ReadForeign(reader_id)
    \/ \E reader_id \in OtherReaders : \E checks \in BOOLEAN :
          ReadOther(reader_id, checks)

Spec == Init /\ [][Next]_vars

\* Several readers side by side, their reads interleaved with single writes.
NextReaders ==
    \/ \E d \in Values : WriteSingle(d) /\ writes' <= MaxWritesReaders
    \/ NewReaderId(MaxReaders)
    \/ \E i \in Slots : Read(i)

SpecReaders == Init /\ [][NextReaders]_vars

\* ------------------------------------------------------------ properties
\* a read through a ReaderId handed out by new_reader_id
MintedRead == last.op = "read" /\ last.rid \in Slots

\* the items of the most recent n writes, oldest first
Recent(n) == [k \in 1 .. Min(n, Len(log)) |-> LastN(log, n)[k].d]

\* number of write_single calls made after the one that filled the slot
Age(slot) ==
    CHOOSE a \in 0 .. Len(log) - 1 : log[Len(log) - a].slot = slot

\* written has been reset to 0 since the initial state
ResetSeen == writes > storage.written

\* C1: a read through a minted ReaderId after n <= max_size writes since its
\* last read or creation returns Ok and yields exactly those n items, in the
\* order they were written.
C1_RoundTrip ==
    (MintedRead /\ last.n <= storage.max_size) =>
        /\ last.res = "Ok"
        /\ last.end = "None"
        /\ last.items = Recent(last.n)

\* C2: a read through a minted ReaderId returns LostData exactly when more
\* than max_size writes were made since its last read or creation, and Ok
\* in every other case.
C2_LostDataIff ==
    MintedRead =>
        /\ (last.res = "LostData") = (last.n > storage.max_size)
        /\ (last.res = "Ok") = (last.n <= storage.max_size)

\* C3: the count carried by LostData is the number of writes since the
\* reader's last read or creation minus max_size.
C3_ExactLossCount ==
    (MintedRead /\ last.res = "LostData") =>
        last.lost = last.n - storage.max_size


\* C4: the sequence carried by LostData has max_size values, the slots
\* write_index .. max_size - 1 followed by 0 .. write_index - 1, which are
\* the max_size most recently written items, oldest first.
C4_SalvageContent ==
    (MintedRead /\ last.res = "LostData") =>
        /\ last.end = "None"
        /\ Len(last.items) = storage.max_size
        /\ last.slots = [k \in 1 .. storage.max_size |->
                            (storage.write_index + k - 1) % storage.max_size]
        /\ last.items = Recent(storage.max_size)

C4_Witness ==
    /\ MintedRead /\ last.res = "LostData"
    /\ storage.max_size >= 2 /\ storage.write_index # 0
    /\ \E k \in 1 .. Len(last.items) : last.items[k] # last.items[1]

\* what a write of k <= max_size items leaves in the storage
WrittenInFull(s, s1, items) ==
    LET k == Len(items)
        slot(j) == (s.write_index + j - 1) % s.max_size
    IN  /\ s1.write_index = (s.write_index + k) % s.max_size
        /\ Len(s1.data) = Min(s.max_size, Len(s.data) + k)
        /\ \A j \in 1 .. k : s1.data[slot(j) + 1] = items[j]
        /\ \A x \in 1 .. Len(s.data) :
              (\A j \in 1 .. k : slot(j) + 1 # x) => s1.data[x] = s.data[x]
        /\ s1.written = IF s.written + k > s.reset_written
                         THEN s.written + k - s.reset_written - 1
                         ELSE s.written + k
        /\ s1.max_size = s.max_size
        /\ s1.next_reader_id = s.next_reader_id

\* C5: write with more than max_size items returns TooLargeWrite and leaves
\* the storage as it was, so every reader reads what it would have read
\* without the call; a write of at most max_size items returns Ok and
\* writes every item.
C5_OversizedBatch ==
    [][last'.op = "write" =>
         IF Len(last'.items) > storage.max_size
         THEN /\ last'.res = "TooLargeWrite"
              /\ storage' = storage
              /\ \A i \in Minted :
                    ReadObs(storage', readers'[i]) = ReadObs(storage, readers[i])
         ELSE /\ last'.res = "Ok"
              /\ WrittenInFull(storage, storage', last'.items)]_vars

C5_Witness ==
    /\ last.op = "write" /\ last.res = "TooLargeWrite"
    /\ \E i \in Minted : since[i] > 0

\* C6: read with a ReaderId of another element type returns InvalidReader
\* and leaves the storage and the ReaderId as they were.
C6_TypeTagGuard ==
    [][(last'.op = "read" /\ last'.before.t # TypeT) =>
         /\ last'.res = "InvalidReader"
         /\ last'.after = last'.before
         /\ last'.items = <<>>
         /\ storage' = storage
         /\ readers' = readers]_vars

C6_Witness ==
    /\ last.op = "read" /\ last.before.t = TypeOther
    /\ last.res = "InvalidReader"
    /\ Len(storage.data) = storage.max_size
    /\ last.before.written # storage.written
    /\ last.before.read_index # storage.write_index

\* C7: a ReaderId read before any write follows its creation gets Ok with
\* no item, and no read ever yields to a ReaderId an item written before
\* the ReaderId was created.
C7_NoRetroactive ==
    MintedRead =>
        /\ last.prev = "new" =>
              last.res = "Ok" /\ last.items = <<>> /\ last.end = "None"
        /\ \A k \in 1 .. Len(last.slots) : Age(last.slots[k]) < last.born

C7_Witness ==
    /\ MintedRead /\ last.prev = "new"
    /\ Len(storage.data) = storage.max_size
    /\ storage.write_index # 0
    /\ ResetSeen

\* C8: a read that follows a read of the same ReaderId with no write in
\* between returns Ok with no item and leaves the ReaderId as it was.
C8_IdempotentEmpty ==
    (MintedRead /\ last.prev \in {"Ok", "LostData"}) =>
        /\ last.res = "Ok"
        /\ last.items = <<>>
        /\ last.end = "None"
        /\ last.after = last.before

C8_Witness ==
    /\ MintedRead /\ last.prev = "LostData" /\ last.res = "Ok"
    /\ Len(storage.data) = storage.max_size

\* after both readers of a pair created at the same moment have caught up,
\* neither has received anything the other has not
SameSequence ==
    \A p \in Pairs :
        (ahead[p].sync /\ since[p[1]] = 0 /\ since[p[2]] = 0) =>
            ahead[p].a = <<>> /\ ahead[p].b = <<>>

\* C9: a read through one ReaderId leaves what a read through any other
\* ReaderId returns as it was, and two ReaderIds created at the same moment
\* that never lag by more than max_size receive the same sequence of items
\* however their reads are interleaved with the writes.
C9_IndependentReaders ==
    [][/\ SameSequence'
       /\ (last'.op = "read") =>
            \A j \in Minted \ {last'.rid} :
                ReadObs(storage', readers'[j]) = ReadObs(storage, readers[j])
      ]_vars

C9_Witness ==
    \E p \in Pairs :
        /\ ahead[p].sync /\ since[p[1]] = 0 /\ since[p[2]] = 0
        /\ MintedRead /\ last.rid = p[1] /\ Len(last.items) = 2
        /\ prev[p[2]] = "Ok"
        /\ ResetSeen

\* C10: a read leaves the storage as it was, whatever it returns; of the
\* ReaderId passed it changes read_index and written only, and it changes
\* no other ReaderId.
C10_ReadFrame ==
    [][last'.op = "read" =>
         /\ storage' = storage
         /\ last'.after.t = last'.before.t
         /\ last'.after.id = last'.before.id
         /\ \A j \in Slots :
               readers'[j] = IF j = last'.rid THEN last'.after ELSE readers[j]
      ]_vars

C10_Witness ==
    /\ MintedRead /\ last.res = "LostData"
    /\ last.after.read_index # last.before.read_index
    /\ last.after.written < last.before.written

\* a read through a ReaderId of the same element type made by another
\* storage
OtherRead == last.op = "read" /\ last.rid = 0 /\ last.before.t = TypeT

\* C11: read with a ReaderId made by another storage of the same element
\* type never panics: the subtraction of the counters does not underflow,
\* and consuming the returned iterator ends without indexing a slot at or
\* beyond data.len().
C11_OtherBufferHandle ==
    OtherRead =>
        /\ last.res # "panic"
        /\ last.end = "None"
        /\ \A k \in 1 .. Len(last.slots) : last.slots[k] < Len(storage.data)

\* C12: write with an empty batch returns Ok and leaves data, write_index
\* and written as they were (and with them the whole storage and every
\* ReaderId), in every state of the storage.
C12_EmptyWrite ==
    [][(last'.op = "write" /\ last'.items = <<>>) =>
         /\ last'.res = "Ok"
         /\ storage'.data = storage.data
         /\ storage'.write_index = storage.write_index
         /\ storage'.written = storage.written
         /\ storage' = storage
         /\ readers' = readers]_vars

C12_Witness ==
    /\ last.op = "write" /\ last.items = <<>> /\ last.res = "Ok"
    /\ Len(storage.data) = storage.max_size
    /\ storage.write_index # 0
    /\ \E i \in Minted : since[i] > 0

\* C13: at a read through a minted ReaderId made fewer than
\* max_size * (ResetFactor - 1) writes after the ReaderId's last read or
\* creation, num_written is the number of write_single calls made in
\* between, also when written was reset to 0 in between.
C13_ExactDelta ==
    (MintedRead /\ last.n < storage.max_size * (ResetFactor - 1)) =>
        NumWritten(storage, last.before) = last.n

\* C14: after k calls of write_single on a new storage, made directly or
\* through write, written is k modulo reset_written (max_size * ResetFactor).
C14_WrittenModulo ==
    storage.written = total % storage.reset_written

\* C15: a read through a minted ReaderId whose read_index equals
\* write_index returns Ok with all max_size items in the order they were
\* written when exactly max_size writes were made since its last read or
\* creation, and Ok with no item when none was made.
C15_FullCycle ==
    (MintedRead /\ last.before.read_index = storage.write_index) =>
        /\ last.n = storage.max_size =>
              /\ last.res = "Ok"
              /\ last.end = "None"
              /\ Len(last.items) = storage.max_size
              /\ last.items = Recent(storage.max_size)
        /\ last.n = 0 =>
              /\ last.res = "Ok"
              /\ last.end = "None"
              /\ last.items = <<>>

\* C16: after a read that returns Ok or LostData the ReaderId passed has
\* read_index equal to write_index and written equal to the storage's
\* written, and so a read that follows at once counts no write: it returns
\* Ok with no item.
C16_Resync ==
    (last.op = "read" /\ last.res \in {"Ok", "LostData"}) =>
        /\ last.after.read_index = storage.write_index
        /\ last.after.written = storage.written
        /\ last.rid \in Slots => readers[last.rid] = last.after
        /\ NumWritten(storage, last.after) = 0
        /\ LET again == ReadObs(storage, last.after) IN
              /\ again.res = "Ok"
              /\ again.items = <<>>
              /\ again.lost = 0

C16_Witness ==
    /\ MintedRead /\ last.res = "LostData"
    /\ last.before.written # last.after.written
    /\ last.before.read_index # last.after.read_index
    /\ prev[last.rid] = "LostData"

\* the bounds of the storage's fields and of the ReaderIds it handed out
InBounds ==
    /\ storage.max_size >= 1
    /\ Len(storage.data) <= storage.max_size
    /\ storage.write_index < storage.max_size
    /\ storage.written <= storage.max_size * ResetFactor
    /\ \A i \in Minted :
          /\ readers[i].read_index < storage.max_size
          /\ readers[i].written <= storage.max_size * ResetFactor

\* a write to a full storage overwrites the slot at write_index
FullOverwrites ==
    Len(storage.data) = storage.max_size =>
        /\ Len(storage'.data) = storage.max_size
        /\ last'.op = "write_single" =>
              storage'.data = [storage.data EXCEPT
                                 ![storage.write_index + 1] = last'.items[1]]

\* C17: in every state reached through new, write, write_single,
\* new_reader_id and read, data.len() <= max_size, write_index < max_size
\* and written <= max_size * ResetFactor; every minted ReaderId has
\* read_index < max_size and written <= max_size * ResetFactor; and once
\* data.len() == max_size a write overwrites the slot at write_index and
\* data.len() stays max_size.
C17_Bounds ==
    []InBounds /\ [][FullOverwrites]_vars

C17_Witness ==
    /\ last.op = "write_single"
    /\ Len(storage.data) = storage.max_size
    /\ total > storage.max_size
    /\ storage.written = storage.reset_written
    /\ storage.write_index = storage.max_size - 1
    /\ \E i \in Minted : readers[i].read_index = storage.max_size - 1

\* C18: at every read through a minted ReaderId, the items the ReaderId
\* has received since its creation (from Ok and from LostData) and the
\* losses reported to it add up to the number of write_single calls made
\* since its creation.
C18_Accounting ==
    MintedRead => owed[last.rid] = 0

\* while the vector is growing the write position is its end
GrowsAtEnd ==
    Len(storage.data) < storage.max_size =>
        storage.write_index = Len(storage.data)

\* what one step does to data: it never shrinks, and write_single pushes
\* the item while the vector is growing and replaces the slot at
\* write_index, and no other, once it is full
FillStep ==
    /\ Len(storage'.data) >= Len(storage.data)
    /\ last'.op = "write_single" =>
          IF Len(storage.data) < storage.max_size
          THEN /\ Len(storage'.data) = Len(storage.data) + 1
               /\ storage'.data[storage.write_index + 1] = last'.items[1]
               /\ \A x \in 1 .. Len(storage.data) :
                     storage'.data[x] = storage.data[x]
          ELSE /\ Len(storage'.data) = Len(storage.data)
               /\ storage'.data[storage.write_index + 1] = last'.items[1]
               /\ \A x \in 1 .. Len(storage.data) :
                     x # storage.write_index + 1 =>
                        storage'.data[x] = storage.data[x]

\* C19: while data.len() < max_size, write_index equals data.len() and
\* write_single appends the item there; data.len() never decreases; and
\* once data.len() == max_size, write_single replaces the slot at
\* write_index and changes no other slot.
C19_Fill ==
    []GrowsAtEnd /\ [][FillStep]_vars

C19_Witness ==
    /\ last.op = "write_single"
    /\ storage.max_size >= 2
    /\ Len(storage.data) = storage.max_size
    /\ writes > storage.max_size
    /\ storage.write_index = 0
    /\ storage.data[storage.max_size] = last.items[1]
    /\ storage.data[1] # last.items[1]

\* C20: consuming the iterator returned by a read through a minted
\* ReaderId (Ok or LostData) reaches None after at most max_size items,
\* each of them taken from a slot below data.len(): next() never indexes
\* past the end of data and never goes on for ever.
C20_IterationEnds ==
    (MintedRead /\ last.res \in {"Ok", "LostData"}) =>
        /\ last.end = "None"
        /\ Len(last.slots) <= storage.max_size
        /\ \A k \in 1 .. Len(last.slots) :
              last.slots[k] \in 0 .. Len(storage.data) - 1

C20_Witness ==
    /\ MintedRead /\ last.res = "Ok"
    /\ storage.max_size >= 2
    /\ Len(last.slots) = storage.max_size
    /\ \E k \in 1 .. Len(last.slots) - 1 : last.slots[k + 1] < last.slots[k]
    /\ last.end = "None"

=============================================================================
